---- MODULE Spec2Model ----
(***************************************************************************)
(* EPiC Grasshopper: the EPiC Material component and the volumetric EPiC   *)
(* Assembly component, as state machines.                                  *)
(*                                                                         *)
(* Numbers: every coefficient of the sample database is a multiple of 100, *)
(* so that "x / 100 * y" is exact whether x is an int or a float.          *)
(* Python's None is the empty tuple, a number v is <<v>>; an id or a       *)
(* category that is None is the empty string.                              *)
(***************************************************************************)
EXTENDS Integers, Sequences, FiniteSets, TLC

VARIABLES
    inp,      \* the values wired to the Material component's inputs
    sources,  \* what is wired to its inputs 5 (wastage) and 6 (service life)
    st,       \* scriptcontext.sticky
    last,     \* the RunScript call that has just returned (cleared by an edit)
    asmIn,    \* the values wired to the Assembly component's inputs
    asmOut    \* what the Assembly component's last RunScript returned

vars == <<inp, sources, st, last, asmIn, asmOut>>

\* ---------------------------------------------------------------- values

None == <<>>
Some(v) == <<v>>
NoId == ""
NoCategory == ""

\* Python truthiness of a number or None
Truthy(x) == x # None /\ x[1] # 0

Abs(x) == IF x < 0 THEN -x ELSE x

\* ------------------------------------------------------ the EPiC database

Materials == {"m1", "m2", "m3", "m4", "m5"}
Categories == {"Concrete", "Timber"}
LegacyIds == {"old1"}

\* In the database a Wastage of 1 is 0 %, of 2 is 100 %; a Service Life of
\* -1 is no service life; an absent value is None.
EpicDb ==
    [m \in Materials |->
        CASE m = "m1" -> [Category |-> "Concrete", Energy |-> Some(100), Water |-> Some(200),
                          GHG |-> Some(300), Wastage |-> Some(2), ServiceLife |-> Some(50)]
          [] m = "m2" -> [Category |-> "Concrete", Energy |-> Some(200), Water |-> Some(0),
                          GHG |-> Some(100), Wastage |-> None, ServiceLife |-> Some(25)]
          [] m = "m3" -> [Category |-> "Timber", Energy |-> Some(300), Water |-> Some(100),
                          GHG |-> Some(200), Wastage |-> Some(1), ServiceLife |-> Some(-1)]
          [] m = "m4" -> [Category |-> "Timber", Energy |-> Some(100), Water |-> Some(100),
                          GHG |-> Some(100), Wastage |-> Some(3), ServiceLife |-> Some(150)]
          [] m = "m5" -> [Category |-> "Timber", Energy |-> None, Water |-> Some(100),
                          GHG |-> Some(100), Wastage |-> Some(2), ServiceLife |-> None]]

query(material_id, column) == EpicDb[material_id][column]

dict_of_categories == [c \in Categories |-> {m \in Materials : EpicDb[m].Category = c}]

query_for_name_or_old_mat_id(material_id) ==
    IF material_id = "old1" THEN "m1" ELSE NoId

\* ------------------------------------------- EPiC Material: RunScript

\* A category arrives as a string or a one-element list, with or without the
\* "n: " number a value list puts before it.
NoRawCategory == [isList |-> FALSE, numbered |-> FALSE, name |-> NoCategory]

RawCategories ==
    {NoRawCategory} \cup
    [isList : BOOLEAN, numbered : BOOLEAN, name : Categories]

NormalizeCategory(raw) ==
    IF raw = NoRawCategory THEN NoCategory
    ELSE LET first == IF raw.isList THEN [raw EXCEPT !.isList = FALSE] ELSE raw
             split == IF first.numbered THEN [first EXCEPT !.numbered = FALSE] ELSE first
         IN split.name

\* The material the component goes on with: a legacy id is replaced
ResolveMaterial(material_id, material_category) ==
    IF material_id \notin dict_of_categories[material_category]
    THEN LET legacy_material == query_for_name_or_old_mat_id(material_id)
         IN IF legacy_material # NoId THEN legacy_material ELSE material_id
    ELSE material_id

\* For an id that is not in the category RunScript takes Params.Input[2].Sources[0]:
\* with nothing wired to input 2 that raises IndexError and the call ends
SourcesIndexError(in, material_id, material_category) ==
    material_id \notin dict_of_categories[material_category] /\ ~in.material_wired

\* recreate_material_list rebuilds the value list wired to input 2 for the
\* category; it selects set_material when given one, otherwise the list shows
\* one of the category's materials. The inputs the next solution runs with.
RecreatedInputs(in, material_id, material_category) ==
    IF material_id \in dict_of_categories[material_category] THEN {in}
    ELSE LET legacy_material == query_for_name_or_old_mat_id(material_id)
         IN IF legacy_material # NoId
            THEN {[in EXCEPT !.material_id = legacy_material]}
            ELSE {[in EXCEPT !.material_id = m] : m \in dict_of_categories[material_category]}

\* generate_material_and_category_dropdown_list wires value lists to the
\* inputs 1 and 2: the categories (the given one kept) and the materials of the
\* category shown; a material already given may stay. The inputs the next
\* solution runs with.
GeneratedInputs(in, material_category) ==
    LET shown == IF material_category # NoCategory THEN {in.material_category}
                 ELSE RawCategories \ {NoRawCategory}
        kept == IF in.material_id # NoId THEN {in.material_id} ELSE {}
    IN UNION {{[in EXCEPT !.material_category = c, !.material_id = m,
                          !.material_wired = TRUE] :
                  m \in dict_of_categories[NormalizeCategory(c)] \cup kept} :
              c \in shown}

\* The defaults fetched for a newly selected material; None - 1 raises the
\* TypeError that sets both to 0.
FetchDefaults(material_id) ==
    LET w == query(material_id, "Wastage")
        s == query(material_id, "ServiceLife")
    IN IF w = None
       THEN [wastage |-> 0, service_life |-> 0]
       ELSE [wastage |-> (w[1] - 1) * 100,
             service_life |-> IF s = None \/ s[1] = -1 \/ s[1] = 0 THEN 0 ELSE s[1]]

NoSource == [kind |-> "none", Value |-> 0, Maximum |-> 0]

GenerateSliderInput(val) ==
    [kind |-> "slider", Value |-> val, Maximum |-> IF val > 100 THEN val ELSE 100]

\* RunScript calls it while building the argument of ScheduleSolution, so the
\* slider is changed within the call; a val of 0 changes nothing
ScheduleCallback(obj, val) ==
    IF val # 0
    THEN [obj EXCEPT !.Maximum = IF val > 100 THEN val ELSE @, !.Value = val]
    ELSE obj

\* One turn of the loop over the inputs 5 and 6
PushDefault(src, val) ==
    IF src.kind = "none" THEN GenerateSliderInput(val)
    ELSE IF src.kind = "slider" THEN ScheduleCallback(src, val)
    ELSE src

\* (mutant) the sticky value is not reset to the current selection
StickyNotUpdated(sticky, material_id) == sticky

\* The sticky value after a changed selection has been handled
StickyAfterChange(sticky, material_id) ==
    [sticky EXCEPT !["component_id"] = material_id]

ReduceCoefficient(coefficient, reduction) ==
    IF reduction = None THEN coefficient
    ELSE Some((coefficient[1] \div 100) * Abs(100 - reduction[1]))

\* The three coefficients the component outputs
ReducedCoefficients(energy, water, ghg, energy_reduction, water_reduction, ghg_reduction) ==
    IF Truthy(water) /\ Truthy(ghg) /\ Truthy(energy)
    THEN [energy |-> ReduceCoefficient(energy, energy_reduction),
          water |-> ReduceCoefficient(water, water_reduction),
          ghg |-> ReduceCoefficient(ghg, ghg_reduction)]
    ELSE [energy |-> energy, water |-> water, ghg |-> ghg]

\* The value an input receives from its source
InputValue(src) == IF src.kind = "none" THEN None ELSE Some(src.Value)

Idle ==
    [kind |-> "idle", material_id |-> NoId, sticky_seen |-> NoId, changed |-> FALSE,
     reset |-> FALSE, generated |-> {}, scheduled |-> {},
     epic_wastage |-> None, epic_service_life |-> None,
     energy |-> None, water |-> None, ghg |-> None,
     wastage |-> None, service_life |-> None]

RunScript ==
    LET raw_id == inp.material_id
        st1 == IF "component_id" \in DOMAIN st THEN st ELSE ("component_id" :> raw_id) @@ st
        st2 == IF "epic_db" \in DOMAIN st1 THEN st1 ELSE ("epic_db" :> "EPiCDatabase") @@ st1
        material_category == NormalizeCategory(inp.material_category)
        reset == inp.connect_button /\ (raw_id = NoId \/ material_category = NoCategory)
        st3 == IF reset THEN [st2 EXCEPT !["component_id"] = NoId] ELSE st2
    IN /\ UNCHANGED <<asmIn, asmOut>>
       /\ IF raw_id # NoId /\ material_category # NoCategory
          THEN IF SourcesIndexError(inp, raw_id, material_category)
               THEN /\ inp' = inp
                    /\ sources' = sources
                    /\ st' = st3
                    /\ last' = [Idle EXCEPT !.kind = "IndexError"]
               ELSE
               LET material_id == ResolveMaterial(raw_id, material_category)
                   changed == material_id # st3["component_id"]
                   defaults == FetchDefaults(material_id)
                   out == ReducedCoefficients(query(material_id, "Energy"),
                                              query(material_id, "Water"),
                                              query(material_id, "GHG"),
                                              inp.energy_reduction, inp.water_reduction,
                                              inp.ghg_reduction)
               IN /\ inp' \in RecreatedInputs(inp, raw_id, material_category)
                  /\ sources' = IF changed
                                THEN (5 :> PushDefault(sources[5], defaults.wastage)) @@
                                     (6 :> PushDefault(sources[6], defaults.service_life))
                                ELSE sources
                  /\ st' = IF changed THEN StickyAfterChange(st3, material_id) ELSE st3
                  /\ last' = [kind |-> "material", material_id |-> material_id,
                              sticky_seen |-> st3["component_id"], changed |-> changed,
                              reset |-> reset,
                              generated |-> IF changed
                                            THEN {i \in {5, 6} : sources[i].kind = "none"}
                                            ELSE {},
                              scheduled |-> IF changed
                                            THEN {i \in {5, 6} : sources[i].kind = "slider"}
                                            ELSE {},
                              epic_wastage |-> IF changed THEN Some(defaults.wastage) ELSE None,
                              epic_service_life |-> IF changed THEN Some(defaults.service_life)
                                                    ELSE None,
                              energy |-> out.energy, water |-> out.water, ghg |-> out.ghg,
                              wastage |-> InputValue(sources[5]),
                              service_life |-> InputValue(sources[6])]
          ELSE /\ inp' \in IF reset THEN GeneratedInputs(inp, material_category) ELSE {inp}
               /\ sources' = sources
               /\ st' = st3
               /\ last' = [Idle EXCEPT !.kind = "warning", !.reset = reset]

\* ------------------------------------------- the user's edits of the canvas

RawMaterialIds == Materials \cup LegacyIds \cup {NoId}
Reductions == {None, Some(0), Some(50), Some(100), Some(150)}
UserValues == {10}

ToggleButton ==
    /\ inp' = [inp EXCEPT !.connect_button = ~@]
    /\ last' = Idle
    /\ UNCHANGED <<sources, st, asmIn, asmOut>>

SelectCategory ==
    \E c \in RawCategories :
        /\ c # inp.material_category
        /\ inp' = [inp EXCEPT !.material_category = c]
        /\ last' = Idle
        /\ UNCHANGED <<sources, st, asmIn, asmOut>>

\* The user picks a material in the list wired to input 2, wires another
\* source, or leaves a value on the input with nothing wired
SelectMaterial ==
    \E m \in RawMaterialIds, w \in BOOLEAN :
        /\ <<m, w>> # <<inp.material_id, inp.material_wired>>
        /\ inp' = [inp EXCEPT !.material_id = m, !.material_wired = w]
        /\ last' = Idle
        /\ UNCHANGED <<sources, st, asmIn, asmOut>>

ConnectSlider ==
    \E i \in {5, 6}, v \in UserValues :
        /\ sources[i].kind = "none"
        /\ sources' = [sources EXCEPT ![i] = [kind |-> "slider", Value |-> v, Maximum |-> 100]]
        /\ last' = Idle
        /\ UNCHANGED <<inp, st, asmIn, asmOut>>

ConnectPanel ==
    \E i \in {5, 6}, v \in UserValues :
        /\ sources[i].kind = "none"
        /\ sources' = [sources EXCEPT ![i] = [kind |-> "panel", Value |-> v, Maximum |-> 0]]
        /\ last' = Idle
        /\ UNCHANGED <<inp, st, asmIn, asmOut>>

Disconnect ==
    \E i \in {5, 6} :
        /\ sources[i].kind # "none"
        /\ sources' = [sources EXCEPT ![i] = NoSource]
        /\ last' = Idle
        /\ UNCHANGED <<inp, st, asmIn, asmOut>>

\* --------------------------------------- EPiC Assembly (volumetric): inputs

\* The component's material inputs material_01, material_02, ... each with its
\* quantity (ten in the component)
NumSlots == 3

\* The loop that gathers the inputs looks for up to this many
MaxInputsChecked == 20

FlowNames == {"energy", "water", "ghg"}

\* A coefficient that holds text where a number is expected: a pair, where None
\* is the empty tuple and the number v the tuple <<v>>
Text == <<"n/a", "text">>

IsNumber(coefficient) == Len(coefficient) = 1

\* EPiCMaterial objects as the Material component outputs them; wastage in
\* percent, service life in years.  X has a coefficient missing, T one that
\* is not a number
EPiCMaterials ==
    [A |-> [energy |-> Some(100), water |-> Some(200), ghg |-> Some(300),
            wastage |-> 0, service_life |-> 0],
     B |-> [energy |-> Some(200), water |-> Some(100), ghg |-> Some(100),
            wastage |-> 50, service_life |-> 25],
     X |-> [energy |-> None, water |-> Some(100), ghg |-> Some(100),
            wastage |-> 0, service_life |-> 50],
     T |-> [energy |-> Some(100), water |-> Text, ghg |-> Some(100),
            wastage |-> 0, service_life |-> 50]]

EmptySlot == [material |-> None, qty |-> None]

\* What a material input and its quantity input may be wired to
SlotChoices ==
    {EmptySlot,
     [material |-> Some(EPiCMaterials.A), qty |-> Some(1)],
     [material |-> Some(EPiCMaterials.A), qty |-> Some(2)],
     [material |-> Some(EPiCMaterials.B), qty |-> Some(1)],
     [material |-> Some(EPiCMaterials.X), qty |-> Some(1)],
     [material |-> Some(EPiCMaterials.T), qty |-> Some(1)],
     [material |-> Some(EPiCMaterials.B), qty |-> None]}

Geometries == {"none", "brep", "surface"}
WastageOverrides == {None, Some(20)}
ServiceLifeOverrides == {None, Some(10)}
\* The period of analysis the recurring flows are computed for
DesignLives == {-10, 50, 120}

geometry_warning == "Surface/line/point input detected. Please input Brep geometry"
no_geometry_warning == "No geometry is connected to the assembly"
no_material_warning == "No input EPiC_Material inputs or material quantities have been found "
skipped_warning == "entry skipped: missing or non-numeric coefficients"

\* --------------------------------------- EPiC Assembly: the epic module

ZeroFlows == [f \in FlowNames |-> 0]

AddFlows(a, b) == [f \in FlowNames |-> a[f] + b[f]]

RECURSIVE SumFlows(_)
SumFlows(seq) ==
    IF seq = <<>> THEN ZeroFlows ELSE AddFlows(Head(seq), SumFlows(Tail(seq)))

Max(a, b) == IF a >= b THEN a ELSE b

\* The flat list m1, q1, m2, q2, ... as (material, quantity) entries; an input
\* pair with no material or no quantity wired is no entry
RECURSIVE create_list_of_input_materials_and_qty(_)
create_list_of_input_materials_and_qty(material_list) ==
    IF Len(material_list) < 2 THEN <<>>
    ELSE LET rest == create_list_of_input_materials_and_qty(Tail(Tail(material_list)))
         IN IF material_list[1] # None /\ material_list[2] # None
            THEN <<[material |-> material_list[1][1], qty |-> material_list[2][1]]>> \o rest
            ELSE rest

HasCoefficients(material) ==
    \A f \in FlowNames : material[f] # None /\ IsNumber(material[f])

\* Whether the EPiCAssembly constructor raises TypeError (TRUE) or returns the
\* assembly (FALSE), as the set of the outcomes it can have.  RunScript takes
\* the exception for geometry that is no Brep, so such geometry raises it.  The
\* constructor is also given the list of entries, and nothing in the component
\* tells whether an entry without numeric coefficients raises it too: both
\* outcomes are kept
EPiCAssemblyTypeError(selected_geometry, epic_materials) ==
    IF selected_geometry = "surface" THEN {TRUE}
    ELSE IF \E k \in 1..Len(epic_materials) : ~HasCoefficients(epic_materials[k].material)
         THEN {FALSE, TRUE}
         ELSE {FALSE}

Override(override, own) == IF override # None THEN override[1] ELSE own

\* initial flow: coefficient * quantity * (1 + wastage)
InitialFlows(entry, wastage) ==
    [f \in FlowNames |-> (entry.material[f][1] * entry.qty * (100 + wastage)) \div 100]

\* (mutant) replacements counted without the floor at zero
RecurringFlowsUnfloored(initial, design_life, service_life) ==
    [f \in FlowNames |->
        IF service_life > 0 THEN initial[f] * (design_life \div service_life) ELSE 0]

\* recurring flow: initial * max(0, floor(design_life / service_life)) when the
\* service life is above 0, else zero
RecurringFlows(initial, design_life, service_life) ==
    [f \in FlowNames |->
        IF service_life > 0 THEN initial[f] * Max(0, design_life \div service_life) ELSE 0]

EntryFlows(entry, assembly, design_life) ==
    LET initial == InitialFlows(entry, Override(assembly.wastage, entry.material.wastage))
    IN [initial |-> initial,
        recurring |-> RecurringFlows(initial, design_life,
                                     Override(assembly.service_life, entry.material.service_life))]

\* (mutant) the sum stops at the first entry without numeric coefficients
RECURSIVE GoodPrefix(_)
GoodPrefix(seq) ==
    IF seq = <<>> \/ ~HasCoefficients(Head(seq).material) THEN <<>>
    ELSE <<Head(seq)>> \o GoodPrefix(Tail(seq))

calculate_flows_stopping(assembly, design_life) ==
    LET good == GoodPrefix(assembly.epic_materials)
        per_entry == [k \in 1..Len(good) |-> EntryFlows(good[k], assembly, design_life)]
    IN [entries |-> per_entry,
        initial |-> SumFlows([k \in 1..Len(good) |-> per_entry[k].initial]),
        recurring |-> SumFlows([k \in 1..Len(good) |-> per_entry[k].recurring]),
        warnings |-> IF Len(good) < Len(assembly.epic_materials)
                     THEN {skipped_warning} ELSE {}]

\* EPiCAssembly.calculate_flows: entries without numeric coefficients are
\* skipped with a warning, the others summed
calculate_flows(assembly, design_life) ==
    LET good == SelectSeq(assembly.epic_materials, LAMBDA e : HasCoefficients(e.material))
        per_entry == [k \in 1..Len(good) |-> EntryFlows(good[k], assembly, design_life)]
    IN [entries |-> per_entry,
        initial |-> SumFlows([k \in 1..Len(good) |-> per_entry[k].initial]),
        recurring |-> SumFlows([k \in 1..Len(good) |-> per_entry[k].recurring]),
        warnings |-> IF Len(good) < Len(assembly.epic_materials)
                     THEN {skipped_warning} ELSE {}]

\* --------------------------------------- EPiC Assembly: RunScript

\* material_NN and material_NN_qty, read from locals() until a name is missing
RECURSIVE CollectFrom(_, _)
CollectFrom(slots, num) ==
    IF num > MaxInputsChecked \/ num \notin DOMAIN slots THEN <<>>
    ELSE <<slots[num].material, slots[num].qty>> \o CollectFrom(slots, num + 1)

\* (mutant) the loop tests the material's value, not its name, and stops at
\* the first input with nothing wired
RECURSIVE CollectUntilUnwired(_, _)
CollectUntilUnwired(slots, num) ==
    IF num > MaxInputsChecked \/ num \notin DOMAIN slots \/ slots[num].material = None
    THEN <<>>
    ELSE <<slots[num].material, slots[num].qty>> \o CollectUntilUnwired(slots, num + 1)

CollectInputsUntilUnwired(slots) == CollectUntilUnwired(slots, 1)

CollectInputs(slots) == CollectFrom(slots, 1)

\* (mutant) the two overrides are given in each other's place
ConstructorArgsSwapped(in, material_list) ==
    [selected_geometry |-> in.input_selected_geometry,
     service_life |-> in.input_wastage_override,
     wastage |-> in.input_service_life_override,
     epic_materials |-> material_list]

\* The arguments RunScript gives the EPiCAssembly constructor
ConstructorArgs(in, material_list) ==
    [selected_geometry |-> in.input_selected_geometry,
     service_life |-> in.input_service_life_override,
     wastage |-> in.input_wastage_override,
     epic_materials |-> material_list]

\* The outcomes the constructor call of RunScript can have on these inputs
ConstructorOutcomes(in) ==
    LET material_list == create_list_of_input_materials_and_qty(CollectInputs(in.slots))
        assembly == ConstructorArgs(in, material_list)
    IN EPiCAssemblyTypeError(assembly.selected_geometry, assembly.epic_materials)

\* What RunScript returns, and the warnings it puts on the component, when the
\* constructor raises TypeError (type_error) and when it does not
AssemblyResult(in, type_error) ==
    LET material_list == create_list_of_input_materials_and_qty(CollectInputs(in.slots))
        assembly == ConstructorArgs(in, material_list)
    IN IF type_error
       THEN [kind |-> "geometry_warning", messages |-> {geometry_warning},
             initial |-> ZeroFlows, recurring |-> ZeroFlows, entries |-> <<>>]
       ELSE LET flows == calculate_flows(assembly, in.design_life)
            IN [kind |-> "assembly",
                messages |-> (IF in.input_selected_geometry = "none"
                              THEN {no_geometry_warning} ELSE {})
                             \cup (IF Len(material_list) < 1
                                   THEN {no_material_warning} ELSE {})
                             \cup flows.warnings,
                initial |-> flows.initial, recurring |-> flows.recurring,
                entries |-> flows.entries]

AssemblyRunScript ==
    /\ asmOut.kind = "idle"
    /\ \E type_error \in ConstructorOutcomes(asmIn) :
           asmOut' = AssemblyResult(asmIn, type_error)
    /\ UNCHANGED <<asmIn, inp, sources, st, last>>

\* ------------------------------------- the user's edits of the assembly

AsmIdle ==
    [kind |-> "idle", messages |-> {}, initial |-> ZeroFlows, recurring |-> ZeroFlows,
     entries |-> <<>>]

RewireSlot ==
    \E i \in 1..NumSlots, c \in SlotChoices :
        /\ c # asmIn.slots[i]
        /\ asmIn' = [asmIn EXCEPT !.slots[i] = c]
        /\ asmOut' = AsmIdle
        /\ UNCHANGED <<inp, sources, st, last>>

SetGeometry ==
    \E g \in Geometries :
        /\ g # asmIn.input_selected_geometry
        /\ asmIn' = [asmIn EXCEPT !.input_selected_geometry = g]
        /\ asmOut' = AsmIdle
        /\ UNCHANGED <<inp, sources, st, last>>

SetOverrides ==
    \E w \in WastageOverrides, s \in ServiceLifeOverrides :
        /\ <<w, s>> # <<asmIn.input_wastage_override, asmIn.input_service_life_override>>
        /\ asmIn' = [asmIn EXCEPT !.input_wastage_override = w,
                                  !.input_service_life_override = s]
        /\ asmOut' = AsmIdle
        /\ UNCHANGED <<inp, sources, st, last>>

SetDesignLife ==
    \E d \in DesignLives :
        /\ d # asmIn.design_life
        /\ asmIn' = [asmIn EXCEPT !.design_life = d]
        /\ asmOut' = AsmIdle
        /\ UNCHANGED <<inp, sources, st, last>>

\* ------------------------------------------------------- specifications

NoInputs ==
    [connect_button |-> FALSE, material_category |-> NoRawCategory, material_id |-> NoId,
     material_wired |-> FALSE,
     energy_reduction |-> None, water_reduction |-> None, ghg_reduction |-> None]

NoAssemblyInputs ==
    [slots |-> [i \in 1..NumSlots |-> EmptySlot],
     input_selected_geometry |-> "none",
     input_service_life_override |-> None,
     input_wastage_override |-> None,
     design_life |-> 50]

\* The component as dropped on the canvas: nothing wired, nothing in sticky
Init ==
    /\ inp = NoInputs
    /\ sources = (5 :> NoSource) @@ (6 :> NoSource)
    /\ st = <<>>
    /\ last = Idle
    /\ asmIn = NoAssemblyInputs
    /\ asmOut = AsmIdle

Next ==
    \/ RunScript
    \/ ToggleButton
    \/ SelectCategory
    \/ SelectMaterial
    \/ ConnectSlider
    \/ ConnectPanel
    \/ Disconnect

Spec == Init /\ [][Next]_vars

\* The component with its inputs wired to any values, reductions included
InitReduction ==
    /\ inp \in [connect_button : BOOLEAN, material_category : RawCategories,
                material_id : RawMaterialIds, material_wired : BOOLEAN,
                energy_reduction : Reductions,
                water_reduction : Reductions, ghg_reduction : Reductions]
    /\ sources = (5 :> NoSource) @@ (6 :> NoSource)
    /\ st = <<>>
    /\ last = Idle
    /\ asmIn = NoAssemblyInputs
    /\ asmOut = AsmIdle

NextReduction == RunScript

SpecReduction == InitReduction /\ [][NextReduction]_vars

NextAssembly ==
    \/ AssemblyRunScript
    \/ RewireSlot
    \/ SetGeometry
    \/ SetOverrides
    \/ SetDesignLife

SpecAssembly == Init /\ [][NextAssembly]_vars

\* ---------------------------------------------------------------- claims

\* An input pair that is an entry of the sum: material and quantity wired,
\* the three coefficients numeric
SlotContributes(slot) ==
    slot.material # None /\ slot.qty # None /\ HasCoefficients(slot.material[1])

SlotWastage(in, slot) ==
    IF in.input_wastage_override # None THEN in.input_wastage_override[1]
    ELSE slot.material[1].wastage

SlotServiceLife(in, slot) ==
    IF in.input_service_life_override # None THEN in.input_service_life_override[1]
    ELSE slot.material[1].service_life

SlotInitial(in, slot, f) ==
    (slot.material[1][f][1] * slot.qty[1] * (100 + SlotWastage(in, slot))) \div 100

RECURSIVE SumOfSlots(_, _, _)
SumOfSlots(in, f, n) ==
    IF n = 0 THEN 0
    ELSE SumOfSlots(in, f, n - 1)
         + (IF SlotContributes(in.slots[n]) THEN SlotInitial(in, in.slots[n], f) ELSE 0)

\* C1: each initial flow the assembly component reports is the sum, over the
\* material inputs, of coefficient * quantity * (1 + wastage), the wastage being
\* the assembly override when one is given; no service life enters it.
C1_InitialFlowIsWastageWeightedSum ==
    asmOut.kind = "assembly" =>
        \A f \in FlowNames : asmOut.initial[f] = SumOfSlots(asmIn, f, NumSlots)

C1_Witness ==
    /\ asmOut.kind = "assembly"
    /\ Cardinality({i \in 1..NumSlots : SlotContributes(asmIn.slots[i])}) >= 2
    /\ \E i \in 1..NumSlots :
          /\ SlotContributes(asmIn.slots[i])
          /\ SlotWastage(asmIn, asmIn.slots[i]) > 0
          /\ SlotServiceLife(asmIn, asmIn.slots[i]) > 0
    /\ asmOut.initial.energy > 0

FlowDb(material_id, f) ==
    query(material_id, CASE f = "energy" -> "Energy" [] f = "water" -> "Water"
                         [] f = "ghg" -> "GHG")

FlowReduction(f) ==
    CASE f = "energy" -> inp.energy_reduction
      [] f = "water" -> inp.water_reduction
      [] f = "ghg" -> inp.ghg_reduction

\* C2: for every flow with a reduction r of 0 to 100 supplied, the coefficient
\* the Material component outputs is the database coefficient * (1 - r/100) and
\* never above the database coefficient; with no reduction supplied it is the
\* database coefficient; whatever the other two flows are.
C2_ReductionScalesEachCoefficient ==
    last.kind = "material" =>
        \A f \in FlowNames :
            LET db == FlowDb(last.material_id, f)
                r == FlowReduction(f)
            IN db # None =>
                  IF r = None THEN last[f] = db
                  ELSE (r[1] >= 0 /\ r[1] <= 100) =>
                          /\ last[f] # None
                          /\ last[f][1] * 100 = db[1] * (100 - r[1])
                          /\ last[f][1] <= db[1]

AllPermutations ==
    {p \in [1..NumSlots -> 1..NumSlots] : \A i, j \in 1..NumSlots : p[i] = p[j] => i = j}

Permuted(in, p) == [in EXCEPT !.slots = [i \in 1..NumSlots |-> in.slots[p[i]]]]

\* The first k material inputs alone, and the others alone
FirstInputs(in, k) ==
    [in EXCEPT !.slots = [i \in 1..NumSlots |-> IF i <= k THEN in.slots[i] ELSE EmptySlot]]

OtherInputs(in, k) ==
    [in EXCEPT !.slots = [i \in 1..NumSlots |->
                             IF i + k <= NumSlots THEN in.slots[i + k] ELSE EmptySlot]]

\* C3: the initial flows of an assembly are the same for every permutation of
\* its material inputs, and are the sum of the flows of any first part of the
\* inputs and of the flows of the rest.
C3_FlowsAdditiveAndOrderIndependent ==
    asmOut.kind = "assembly" =>
        /\ \A p \in AllPermutations :
              AssemblyResult(Permuted(asmIn, p), FALSE).initial = asmOut.initial
        /\ \A k \in 0..NumSlots :
              AddFlows(AssemblyResult(FirstInputs(asmIn, k), FALSE).initial,
                       AssemblyResult(OtherInputs(asmIn, k), FALSE).initial) = asmOut.initial

C3_Witness ==
    /\ asmOut.kind = "assembly"
    /\ asmIn.slots[1] = EmptySlot
    /\ \E i, j \in 1..NumSlots :
          /\ SlotContributes(asmIn.slots[i])
          /\ SlotContributes(asmIn.slots[j])
          /\ asmIn.slots[i].material # asmIn.slots[j].material
    /\ asmOut.initial.water > 0

\* The material inputs that are entries of the sum, in input order
RECURSIVE ContributingSlots(_, _)
ContributingSlots(in, n) ==
    IF n = 0 THEN <<>>
    ELSE ContributingSlots(in, n - 1)
         \o (IF SlotContributes(in.slots[n]) THEN <<in.slots[n]>> ELSE <<>>)

\* C4: for every material and flow, the recurring flow is the material's initial
\* flow * max(0, floor(design life / service life)) when the service life (the
\* assembly override when one is given) is above 0, and zero when it is 0.
C4_RecurringFlowCountsReplacements ==
    asmOut.kind = "assembly" =>
        LET slots == ContributingSlots(asmIn, NumSlots)
        IN /\ Len(asmOut.entries) = Len(slots)
           /\ \A k \in 1..Len(slots) : \A f \in FlowNames :
                 LET service_life == SlotServiceLife(asmIn, slots[k])
                     initial == SlotInitial(asmIn, slots[k], f)
                     replacements == asmIn.design_life \div service_life
                 IN /\ asmOut.entries[k].initial[f] = initial
                    /\ asmOut.entries[k].recurring[f] =
                          IF service_life > 0
                          THEN initial * (IF replacements > 0 THEN replacements ELSE 0)
                          ELSE 0

C4_Witness ==
    /\ asmOut.kind = "assembly"
    /\ \E k \in 1..Len(asmOut.entries) :
          /\ asmOut.entries[k].initial.energy > 0
          /\ asmOut.entries[k].recurring.energy >= 2 * asmOut.entries[k].initial.energy
    /\ \E k \in 1..Len(asmOut.entries) :
          /\ asmOut.entries[k].initial.energy > 0
          /\ asmOut.entries[k].recurring.energy = 0

ExpectedWastage(material_id) ==
    LET w == query(material_id, "Wastage")
    IN IF w # None THEN (w[1] - 1) * 100 ELSE 0

ExpectedServiceLife(material_id) ==
    LET s == query(material_id, "ServiceLife")
    IN IF s # None /\ s[1] # -1 THEN s[1] ELSE 0

\* C5: when the selection changes, the default wastage and the default service
\* life pushed to the inputs are each the database's value when the database
\* has one (wastage (Wastage - 1) * 100, service life unless -1), else 0; a
\* material with a Service Life and no Wastage gets its service life.
C5_DefaultsEachFromDatabase ==
    (last.kind = "material" /\ last.changed) =>
        /\ last.epic_wastage = Some(ExpectedWastage(last.material_id))
        /\ last.epic_service_life = Some(ExpectedServiceLife(last.material_id))

BadSlot(slot) ==
    slot.material # None /\ slot.qty # None /\ ~HasCoefficients(slot.material[1])

WithoutBadSlots(in) ==
    [in EXCEPT !.slots = [i \in 1..NumSlots |->
                             IF BadSlot(in.slots[i]) THEN EmptySlot ELSE in.slots[i]]]

C7_SlidersOnlyOnChangedSelection ==
    [][last'.kind = "material" =>
          /\ (last'.generated \cup last'.scheduled # {} \/ sources' # sources) =>
                /\ last'.material_id # last'.sticky_seen
                /\ st'["component_id"] = last'.material_id
          /\ ("component_id" \in DOMAIN st /\ st["component_id"] = last'.material_id) =>
                /\ last'.generated \cup last'.scheduled = {}
                /\ sources' = sources]_vars

C7_Witness ==
    /\ last.kind = "material"
    /\ last.changed
    /\ last.sticky_seen \in Materials
    /\ last.scheduled # {}
    /\ st["component_id"] = last.material_id

Pushed(call, i) == IF i = 5 THEN call.epic_wastage[1] ELSE call.epic_service_life[1]

\* C8: when the selection changes, a number slider wired to input 5 or 6 gets
\* the new default as its value, for every default, 0 included, and as its
\* maximum when the default is above 100; another kind of source is untouched.
C8_ConnectedSliderTakesEveryDefault ==
    [][(last'.kind = "material" /\ last'.changed) =>
          \A i \in {5, 6} :
              /\ sources[i].kind = "slider" =>
                    /\ sources'[i].Value = Pushed(last', i)
                    /\ Pushed(last', i) > 100 => sources'[i].Maximum = Pushed(last', i)
              /\ sources[i].kind = "panel" => sources'[i] = sources[i]]_vars

====
